---- MODULE Spec2Model ----
(***************************************************************************)
(* Model of blog-to-tweet-app.                                             *)
(*                                                                         *)
(* src/api/generate.js holds four successive variants of the serverless    *)
(* handler (lines 2-107, 110-252, 256-391, 394-505); a deployment runs one *)
(* of them, chosen here by the variable `variant`.  src/unnamed/part_000   *)
(* is the React client, whose generateThread talks to the upstream         *)
(* services directly.                                                      *)
(*                                                                         *)
(* A text is a sequence of one-character strings, so that trimming and     *)
(* length are computed as String.prototype.trim and .length compute them.  *)
(***************************************************************************)
EXTENDS Integers, Sequences, FiniteSets, TLC

\* ------------------------------------------------------------------------
\* Bounds
\* ------------------------------------------------------------------------
\* most whitespace characters put on either side of an upstream text
MaxPad == 1

\* ------------------------------------------------------------------------
\* Program constants
\* ------------------------------------------------------------------------
\* minimum trimmed length of a usable extraction
MinContentLength == 100

\* ------------------------------------------------------------------------
\* Texts
\* ------------------------------------------------------------------------
Rep(c, n) == [i \in 1..n |-> c]

\* the phrase the Specific prompt asks for when nothing is found
Sentinel ==
    <<"C","o","n","t","e","n","t"," ","n","o","t"," ","f","o","u","n","d">>

\* the same phrase as an upstream model may spell it
SentinelLower ==
    <<"c","o","n","t","e","n","t"," ","n","o","t"," ","f","o","u","n","d">>

WhiteSpace == {" ", "\t", "\n", "\r"}

RECURSIVE TrimStart(_)
TrimStart(s) ==
    IF s = <<>> THEN <<>>
    ELSE IF Head(s) \in WhiteSpace THEN TrimStart(Tail(s))
    ELSE s

RECURSIVE TrimEnd(_)
TrimEnd(s) ==
    IF s = <<>> THEN <<>>
    ELSE IF s[Len(s)] \in WhiteSpace THEN TrimEnd(SubSeq(s, 1, Len(s) - 1))
    ELSE s

\* String.prototype.trim
Trim(s) == TrimEnd(TrimStart(s))

\* JavaScript truthiness of a string: a missing field (undefined) and the
\* empty string are both falsy and are both written <<>>
Truthy(s) == s # <<>>

Pad(l, s, r) == Rep(" ", l) \o s \o Rep(" ", r)

BaseTexts ==
    { <<>>, Sentinel, SentinelLower,
      Rep("x", MinContentLength - 1), Rep("x", MinContentLength) }

\* the texts an upstream text model may return
Texts == { Pad(l, b, r) : l \in 0..MaxPad, b \in BaseTexts, r \in 0..MaxPad }

LongText == Rep("x", MinContentLength)

\* ------------------------------------------------------------------------
\* Upstream services (the environment of the handler and of the client)
\* ------------------------------------------------------------------------
\* What one fetch of the text model can produce.  net: fetch resolved;
\* parses: response.json() succeeds; rereadable: response.text() still
\* succeeds after a failed response.json(); ok: response.ok; text:
\* candidates[0].content.parts[0].text, <<>> when missing or empty.
TextResponses ==
    { [net |-> FALSE, parses |-> FALSE, rereadable |-> FALSE, ok |-> FALSE,
       status |-> 0, errorMessage |-> "", text |-> <<>>] }
    \cup
    { [net |-> TRUE, parses |-> FALSE, rereadable |-> rr, ok |-> k,
       status |-> IF k THEN 200 ELSE 502, errorMessage |-> "", text |-> <<>>]
        : rr \in BOOLEAN, k \in BOOLEAN }
    \cup
    { [net |-> TRUE, parses |-> TRUE, rereadable |-> FALSE, ok |-> FALSE,
       status |-> st, errorMessage |-> m, text |-> t]
        : st \in {429, 500}, m \in {"", "Quota exceeded"}, t \in {<<>>, LongText} }
    \cup
    { [net |-> TRUE, parses |-> TRUE, rereadable |-> FALSE, ok |-> TRUE,
       status |-> 200, errorMessage |-> "", text |-> t] : t \in Texts }

\* What one fetch of an image backend can produce.  data: the base64 payload
\* (inlineData.data, predictions[0].bytesBase64Encoded), "" when missing;
\* url: the url field of the Perplexity backend, "" when missing.
ImageResponses ==
    { [net |-> FALSE, parses |-> FALSE, rereadable |-> FALSE, ok |-> FALSE,
       errorMessage |-> "", data |-> "", url |-> ""] }
    \cup
    { [net |-> TRUE, parses |-> FALSE, rereadable |-> rr, ok |-> k,
       errorMessage |-> "", data |-> "", url |-> ""]
        : rr \in BOOLEAN, k \in BOOLEAN }
    \cup
    { [net |-> TRUE, parses |-> TRUE, rereadable |-> FALSE, ok |-> FALSE,
       errorMessage |-> m, data |-> d, url |-> ""]
        : m \in {"", "Rate limited"}, d \in {"", "iVBORw0KGgo="} }
    \cup
    { [net |-> TRUE, parses |-> TRUE, rereadable |-> FALSE, ok |-> TRUE,
       errorMessage |-> "", data |-> d, url |-> u]
        : d \in {"", "iVBORw0KGgo="}, u \in {"", "https://img.example/1.png"} }

\* messages of the runtime's own exceptions
FetchFailed == "fetch failed"
JsonSyntaxError == "Unexpected token < in JSON at position 0"
BodyAlreadyRead == "Body is unusable: Body has already been read"
RawUpstreamBody == "<html>Bad Gateway</html>"
NoBodyTypeError ==
    "Cannot destructure property 'task' of 'req.body' as it is undefined."

\* `API request failed with status: ${response.status}`
StatusMessage(st) ==
    CASE st = 429 -> "API request failed with status: 429"
      [] st = 500 -> "API request failed with status: 500"
      [] st = 502 -> "API request failed with status: 502"
      [] OTHER    -> "API request failed with status: 0"

\* ------------------------------------------------------------------------
\* Helpers of the handler: the outcome of an async helper is either a
\* returned value or a thrown Error carrying a message
\* ------------------------------------------------------------------------
NoImage == [scheme |-> "", rest |-> ""]
DataUri(d) == [scheme |-> "data:image/png;base64,", rest |-> d]
PlainUrl(u) == [scheme |-> "", rest |-> u]

Returned(t) == [threw |-> FALSE, message |-> "", text |-> t, imageUrl |-> NoImage]
ReturnedImage(u) == [threw |-> FALSE, message |-> "", text |-> <<>>, imageUrl |-> u]
Threw(m) == [threw |-> TRUE, message |-> m, text |-> <<>>, imageUrl |-> NoImage]

\* callGeminiAPI of the first variant
callGeminiAPI1(resp, useSearch) ==
    IF ~resp.net THEN Threw(FetchFailed)
    ELSE IF ~resp.parses THEN Threw(JsonSyntaxError)
    ELSE IF ~resp.ok \/ ~Truthy(resp.text) THEN Threw("Gemini API call failed.")
    ELSE Returned(resp.text)

\* callGeminiAPI of the two-attempt variant
callGeminiAPI2(resp, useSearch) ==
    IF ~resp.net THEN Threw(FetchFailed)
    ELSE IF ~resp.parses THEN
        IF resp.rereadable
        THEN Threw("Gemini API call failed. Received a non-JSON response.")
        ELSE Threw(BodyAlreadyRead)
    ELSE IF ~resp.ok THEN
        Threw(IF resp.errorMessage # "" THEN resp.errorMessage
              ELSE StatusMessage(resp.status))
    ELSE IF ~Truthy(resp.text) THEN
        Threw("Gemini API call failed: No content returned.")
    ELSE Returned(resp.text)

\* callGeminiAPI of the Perplexity variant
callGeminiAPI3(resp, isContentExtraction) ==
    IF ~resp.net THEN Threw(FetchFailed)
    ELSE IF ~resp.parses THEN
        IF isContentExtraction THEN Returned(Sentinel)
        ELSE Threw("Failed to parse JSON response. Received a non-JSON response.")
    ELSE IF ~resp.ok THEN
        Threw(IF resp.errorMessage # "" THEN resp.errorMessage
              ELSE StatusMessage(resp.status))
    ELSE IF ~Truthy(resp.text) THEN
        Threw("Gemini API call failed: No content returned.")
    ELSE Returned(resp.text)

\* callGeminiAPI of the Imagen variant
callGeminiAPI4(resp, useSearch) ==
    IF ~resp.net THEN Threw(FetchFailed)
    ELSE IF ~resp.parses THEN Threw(JsonSyntaxError)
    ELSE IF ~resp.ok \/ ~Truthy(resp.text) THEN Threw("Gemini API call failed.")
    ELSE Returned(resp.text)

\* the callGeminiAPI the deployed variant v defines
callGeminiAPI(v, resp, flag) ==
    CASE v = 1 -> callGeminiAPI1(resp, flag)
      [] v = 2 -> callGeminiAPI2(resp, flag)
      [] v = 3 -> callGeminiAPI3(resp, flag)
      [] OTHER -> callGeminiAPI4(resp, flag)

\* callGeminiImageAPI (first and two-attempt variants, same code)
callGeminiImageAPI(resp) ==
    IF ~resp.net THEN Threw(FetchFailed)
    ELSE IF ~resp.parses THEN Threw(JsonSyntaxError)
    ELSE IF resp.data = "" THEN
        Threw("Gemini Image API call failed. Check server logs for details.")
    ELSE ReturnedImage(DataUri(resp.data))

\* callPerplexityImageAPI
callPerplexityImageAPI(resp) ==
    IF ~resp.net THEN Threw(FetchFailed)
    ELSE IF ~resp.ok THEN
        IF resp.parses
        THEN Threw(IF resp.errorMessage # "" THEN resp.errorMessage
                   ELSE "Perplexity image API failed")
        ELSE IF resp.rereadable THEN Threw(RawUpstreamBody)
        ELSE Threw(BodyAlreadyRead)
    ELSE IF ~resp.parses THEN Threw(JsonSyntaxError)
    ELSE IF resp.url = "" THEN Threw("Perplexity API response missing image URL.")
    ELSE ReturnedImage(PlainUrl(resp.url))

\* callImagenAPI
callImagenAPI(resp) ==
    IF ~resp.net THEN Threw(FetchFailed)
    ELSE IF ~resp.parses THEN Threw(JsonSyntaxError)
    ELSE IF ~resp.ok \/ resp.data = "" THEN
        Threw("Imagen API call failed. Check server logs for details.")
    ELSE ReturnedImage(DataUri(resp.data))

\* the image helper the deployed variant v calls
callImageAPI(v, resp) ==
    CASE v = 3 -> callPerplexityImageAPI(resp)
      [] v = 4 -> callImagenAPI(resp)
      [] OTHER -> callGeminiImageAPI(resp)

\* ------------------------------------------------------------------------
\* The serverless handler
\* ------------------------------------------------------------------------
VARIABLES
    variant,          \* which of the four handler variants is deployed
    env,              \* process.env: which credentials are set
    req,              \* the request being handled
    pc,               \* where the handler is suspended (await) or "done"
    calls,            \* the upstream calls issued so far, in order
    returns,          \* what the upstream answered to them, in order
    res,              \* the responses sent on res, in order
    envRead,          \* the names read from process.env
    escaped,          \* an exception left the handler
    specificResponse, \* the handler's local specificResponse
    broadResponse     \* the handler's local broadResponse

serverVars == <<variant, env, req, pc, calls, returns, res, envRead, escaped,
                specificResponse, broadResponse>>

\* the state of the client (one run of generateThread of the App component)
VARIABLES
    url,                \* useState url
    text,               \* useState text
    tweetCount,         \* useState tweetCount
    generateImage,      \* useState generateImage
    tweets,             \* useState tweets
    isLoading,          \* useState isLoading
    error,              \* useState error
    generatedImageUrl,  \* useState generatedImageUrl
    loadingImage,       \* useState loadingImage
    cpc,                \* where generateThread is suspended, or "done"
    contentToSummarize, \* local of generateThread
    fetches,            \* the upstream fetches issued, in order
    lastEdit,           \* the last edit made to the two input fields
    started,            \* how many times generateThread has been started
    earlier             \* earlier runs of generateThread not yet finished

\* what only the App with its input fields and repeated clicks changes
appVars == <<lastEdit, started, earlier>>

clientVars == <<url, text, tweetCount, generateImage, tweets, isLoading, error,
                generatedImageUrl, loadingImage, cpc, contentToSummarize,
                fetches, lastEdit, started, earlier>>

Variants == 1..4
TwoAttemptVariants == {2, 3}

Methods == {"POST", "GET"}
Tasks == {"content", "thread", "image"}
\* task values of a request body: the three tasks, a misspelt one, and a
\* body without the field
TaskValues == Tasks \cup {"summarize", "undefined"}
\* tweetCount values of a request body: 0 stands for a body without the
\* field, the others lie inside and just outside the slider's range
TweetCounts == {0, 2, 3, 5, 15, 16}

Requests ==
    [method : Methods, hasBody : BOOLEAN, task : TaskValues,
     tweetCount : TweetCounts]

NoRequest == [method |-> "", hasBody |-> FALSE, task |-> "", tweetCount |-> 0]
NotYet == [returned |-> FALSE, text |-> <<>>]
Got(t) == [returned |-> TRUE, text |-> t]

\* responses
MethodNotAllowed ==
    [status |-> 405, allow |-> <<"POST">>, kind |-> "plain", error |-> "",
     text |-> <<>>, imageUrl |-> NoImage]
ErrorResponse(st, m) ==
    [status |-> st, allow |-> <<>>, kind |-> "error", error |-> m,
     text |-> <<>>, imageUrl |-> NoImage]
TextResponse(t) ==
    [status |-> 200, allow |-> <<>>, kind |-> "text", error |-> "",
     text |-> t, imageUrl |-> NoImage]
ImageResponse(u) ==
    [status |-> 200, allow |-> <<>>, kind |-> "image", error |-> "",
     text |-> <<>>, imageUrl |-> u]

Call(api, purpose) == [api |-> api, purpose |-> purpose, tweetCount |-> req'.tweetCount]

\* a slip: the method check left out
MethodAllowedAny(m) == TRUE

\* req.method !== 'POST'
MethodAllowed(m) == m = "POST"

\* a slip: the credential checks left out
ConfigErrorNone(v, e) == ""

\* the credential checks at the head of the try block: the message of the
\* configuration error, "" when the configuration is complete
ConfigError(v, e) ==
    IF ~e.GEMINI_API_KEY
    THEN IF v = 3 THEN "Gemini API key is not configured."
         ELSE "API key is not configured."
    ELSE IF v = 3 /\ ~e.PPLX_API_KEY
    THEN "Perplexity API key is not configured."
    ELSE ""

EnvKeysRead(v) ==
    IF v = 3 THEN {"GEMINI_API_KEY", "PPLX_API_KEY"} ELSE {"GEMINI_API_KEY"}

\* a slip: the final else branch extracts content instead of rejecting
DispatchDefaultContent(task) == IF task \in Tasks THEN task ELSE "content"

\* the branch of the if / else-if chain a task value selects
Dispatch(task) == IF task \in Tasks THEN task ELSE "invalid"

\* a slip: the length check of the first attempt left out
NeedsBroadSentinelOnly(t) == Trim(t) = Sentinel

\* the condition under which the second attempt is made
NeedsBroad(t) ==
    Trim(t) = Sentinel \/ Len(Trim(t)) < MinContentLength

\* the condition under which the second attempt is rejected
BroadTooShort(t) == Len(Trim(t)) < MinContentLength

\* a slip: the catch block rethrows instead of responding
HandlerCatchRethrow(message) == [sent |-> <<>>, escaped |-> TRUE]

\* a slip: the catch block passes the failure on as a gateway error
HandlerCatchBadGateway(message) ==
    [sent |-> <<ErrorResponse(502, message)>>, escaped |-> FALSE]

\* the catch block of the handler: what it sends and whether the error
\* leaves the handler
HandlerCatch(message) ==
    [sent |-> <<ErrorResponse(500, message)>>, escaped |-> FALSE]

\* what the handler does with a second attempt that is too short
BroadFailure(v) ==
    IF v = 2
    THEN [sent |-> <<ErrorResponse(404,
            "Could not find content from the provided URL. Please try pasting the content manually.")>>,
          escaped |-> FALSE]
    ELSE HandlerCatch("Could not extract enough content from the URL.")

Finish(out) ==
    /\ res' = res \o out.sent
    /\ escaped' = out.escaped
    /\ pc' = "done"
    /\ UNCHANGED calls

Respond(r) == Finish([sent |-> <<r>>, escaped |-> FALSE])

\* a slip: the helper fetches once more after its fetch
IssueTwice(c, next) ==
    /\ calls' = Append(Append(calls, c), c)
    /\ pc' = next
    /\ UNCHANGED <<res, escaped>>

Issue(c, next) ==
    /\ calls' = Append(calls, c)
    /\ pc' = next
    /\ UNCHANGED <<res, escaped>>

\* the handler from its entry to its first await (or to its response)
HandleRequest(r) ==
    /\ UNCHANGED clientVars
    /\ pc = "idle"
    /\ req' = r
    /\ UNCHANGED <<variant, env, returns, specificResponse, broadResponse>>
    /\ IF ~MethodAllowed(r.method)
       THEN Respond(MethodNotAllowed) /\ envRead' = {}
       ELSE /\ envRead' = EnvKeysRead(variant)
            /\ IF ConfigError(variant, env) # ""
               THEN Respond(ErrorResponse(500, ConfigError(variant, env)))
               ELSE IF ~r.hasBody
               THEN Finish(HandlerCatch(NoBodyTypeError))
               ELSE CASE Dispatch(r.task) = "content" ->
                           IF variant \in TwoAttemptVariants
                           THEN Issue(Call("text", "specific"), "awaitSpecific")
                           ELSE Issue(Call("text", "content"), "awaitContent")
                      [] Dispatch(r.task) = "thread" ->
                           Issue(Call("text", "thread"), "awaitThread")
                      [] Dispatch(r.task) = "image" ->
                           IF variant = 4
                           THEN Issue(Call("text", "prompt"), "awaitPrompt")
                           ELSE Issue(Call("image", "image"), "awaitImage")
                      [] OTHER ->
                           Respond(ErrorResponse(400, "Invalid task specified."))

\* content task of the first and Imagen variants: the single attempt returns
ContentReturns(resp) ==
    /\ UNCHANGED clientVars
    /\ pc = "awaitContent"
    /\ returns' = Append(returns, resp)
    /\ UNCHANGED <<variant, env, req, envRead, specificResponse, broadResponse>>
    /\ LET o == callGeminiAPI(variant, resp, TRUE) IN
       IF o.threw THEN Finish(HandlerCatch(o.message))
       ELSE Respond(TextResponse(o.text))

\* content task of the two-attempt variants: the Specific attempt returns
SpecificReturns(resp) ==
    /\ UNCHANGED clientVars
    /\ pc = "awaitSpecific"
    /\ returns' = Append(returns, resp)
    /\ UNCHANGED <<variant, env, req, envRead, broadResponse>>
    /\ LET o == callGeminiAPI(variant, resp, TRUE) IN
       IF o.threw
       THEN Finish(HandlerCatch(o.message)) /\ UNCHANGED specificResponse
       ELSE /\ specificResponse' = Got(o.text)
            /\ IF NeedsBroad(o.text)
               THEN Issue([api |-> "text", purpose |-> "broad",
                           tweetCount |-> req.tweetCount], "awaitBroad")
               ELSE Respond(TextResponse(o.text))

\* content task of the two-attempt variants: the Broad attempt returns
BroadReturns(resp) ==
    /\ UNCHANGED clientVars
    /\ pc = "awaitBroad"
    /\ returns' = Append(returns, resp)
    /\ UNCHANGED <<variant, env, req, envRead, specificResponse>>
    /\ LET o == callGeminiAPI(variant, resp, TRUE) IN
       IF o.threw
       THEN Finish(HandlerCatch(o.message)) /\ UNCHANGED broadResponse
       ELSE /\ broadResponse' = Got(o.text)
            /\ IF BroadTooShort(o.text)
               THEN Finish(BroadFailure(variant))
               ELSE Respond(TextResponse(o.text))

\* thread task: the text model returns
ThreadReturns(resp) ==
    /\ UNCHANGED clientVars
    /\ pc = "awaitThread"
    /\ returns' = Append(returns, resp)
    /\ UNCHANGED <<variant, env, req, envRead, specificResponse, broadResponse>>
    /\ LET o == callGeminiAPI(variant, resp, FALSE) IN
       IF o.threw THEN Finish(HandlerCatch(o.message))
       ELSE Respond(TextResponse(o.text))

\* image task of the Imagen variant: the prompt derivation returns
PromptReturns(resp) ==
    /\ UNCHANGED clientVars
    /\ pc = "awaitPrompt"
    /\ returns' = Append(returns, resp)
    /\ UNCHANGED <<variant, env, req, envRead, specificResponse, broadResponse>>
    /\ LET o == callGeminiAPI(variant, resp, FALSE) IN
       IF o.threw THEN Finish(HandlerCatch(o.message))
       ELSE Issue([api |-> "image", purpose |-> "image",
                   tweetCount |-> req.tweetCount], "awaitImage")

\* image task: the image backend returns
ImageReturns(resp) ==
    /\ UNCHANGED clientVars
    /\ pc = "awaitImage"
    /\ returns' = Append(returns, resp)
    /\ UNCHANGED <<variant, env, req, envRead, specificResponse, broadResponse>>
    /\ LET o == callImageAPI(variant, resp) IN
       IF o.threw THEN Finish(HandlerCatch(o.message))
       ELSE Respond(ImageResponse(o.imageUrl))

ServerInit ==
    /\ variant \in Variants
    /\ env \in [GEMINI_API_KEY : BOOLEAN, PPLX_API_KEY : BOOLEAN]
    /\ req = NoRequest
    /\ pc = "idle"
    /\ calls = <<>>
    /\ returns = <<>>
    /\ res = <<>>
    /\ envRead = {}
    /\ escaped = FALSE
    /\ specificResponse = NotYet
    /\ broadResponse = NotYet

\* ------------------------------------------------------------------------
\* The client: one run of generateThread of the App component
\* ------------------------------------------------------------------------

\* the word limit of generateThread
WordLimit == 3000
\* the slider of the tweet count: min, max and the initial value
MinTweets == 3
MaxTweets == 15
DefaultTweets == 5
\* the length the prompt allows a tweet
MaxTweetLength == 280

\* a slip: the content is never split, whatever its length
SplitLengthUnsplit(s) == 1

\* contentToSummarize.split(/\s+/).length: one more than the number of
\* maximal runs of whitespace
SplitLength(s) ==
    1 + Cardinality({ i \in 1..Len(s) :
                        /\ s[i] \in WhiteSpace
                        /\ (i = 1 \/ s[i - 1] \notin WhiteSpace) })

\* n words separated by single spaces
Words(n) == [i \in 1..(2 * n - 1) |-> IF i % 2 = 1 THEN "w" ELSE " "]

\* fetchUrlContent: the fixed mock article, whatever the URL
fetchUrlContent(u) == Words(200)

SomeUrl == <<"h","t","t","p","s",":","/","/","a",".","b">>

\* the form as the user may have left it: at most one of url and text is
\* filled in
Forms ==
    { [url |-> <<>>, text |-> <<>>], [url |-> SomeUrl, text |-> <<>>] }
    \cup
    { [url |-> <<>>, text |-> t]
        : t \in {Words(3), Words(WordLimit), Words(WordLimit + 1)} }

TweetCountChoices == {MinTweets, DefaultTweets, MaxTweets}

\* What the fetch of the thread can produce.  raw: what
\* candidates[0].content.parts[0].text holds: "none" (missing or empty),
\* "invalid" (not JSON), "object" (JSON, not an array) or "array" with items.
ArrayOf(k, len) == [i \in 1..k |-> Rep("t", len)]

ThreadResponses ==
    { [net |-> FALSE, parses |-> FALSE, raw |-> "none", items |-> <<>>],
      [net |-> TRUE, parses |-> FALSE, raw |-> "none", items |-> <<>>] }
    \cup
    { [net |-> TRUE, parses |-> TRUE, raw |-> k, items |-> <<>>]
        : k \in {"none", "invalid", "object"} }
    \cup
    { [net |-> TRUE, parses |-> TRUE, raw |-> "array", items |-> ArrayOf(n + d, len)]
        : n \in TweetCountChoices, d \in {-1, 0, 1},
          len \in {MaxTweetLength, MaxTweetLength + 1} }

\* generatedTweets.map((tweet, index) => ({id, content, isEdited}))
MapTweets(items) ==
    [i \in 1..Len(items) |->
        [id |-> i - 1, content |-> items[i], isEdited |-> FALSE]]

\* the try / catch / finally around the thread fetch: the tweets and the
\* error it leaves
ThreadStage(resp) ==
    IF ~resp.net \/ ~resp.parses
    THEN [setTweets |-> FALSE, tweets |-> <<>>,
          error |-> "Failed to connect to the Gemini API. Please try again later."]
    ELSE IF resp.raw = "none"
    THEN [setTweets |-> FALSE, tweets |-> <<>>,
          error |-> "Could not generate tweets. Please try again."]
    ELSE IF resp.raw \in {"invalid", "object"}
    THEN [setTweets |-> FALSE, tweets |-> <<>>,
          error |-> "Failed to connect to the Gemini API. Please try again later."]
    ELSE [setTweets |-> TRUE, tweets |-> MapTweets(resp.items), error |-> ""]

\* createImagePrompt: the derived prompt, <<>> for null
createImagePrompt(resp) ==
    IF ~resp.net \/ ~resp.parses THEN <<>>
    ELSE resp.text

\* the try / catch of the image stage once the image fetch has returned:
\* the image it sets and the error it records ("" when it records none)
ImageStage(resp) ==
    IF ~resp.net \/ ~resp.parses
    THEN [setImage |-> FALSE, image |-> NoImage, setError |-> TRUE,
          error |-> "Failed to generate image. Please try again."]
    ELSE IF resp.data # ""
    THEN [setImage |-> TRUE, image |-> DataUri(resp.data), setError |-> FALSE,
          error |-> ""]
    ELSE [setImage |-> FALSE, image |-> NoImage, setError |-> FALSE, error |-> ""]

\* the catch of the image stage when createImagePrompt gave nothing
PromptFailure ==
    [setImage |-> FALSE, image |-> NoImage, setError |-> TRUE,
     error |-> "Failed to generate image. Please try again."]

\* a slip: the image prompt is fetched together with the thread
CheckAndFetchBoth(content) ==
    /\ contentToSummarize' = content
    /\ IF SplitLength(content) > WordLimit
       THEN /\ error' = "Blog content exceeds the 3000-word limit."
            /\ isLoading' = FALSE
            /\ cpc' = "done"
            /\ UNCHANGED fetches
       ELSE /\ error' = ""
            /\ isLoading' = TRUE
            /\ cpc' = "awaitThread"
            /\ fetches' = Append(Append(fetches, "thread"), "imagePrompt")

\* generateThread from the word-limit check to the thread fetch
CheckAndFetch(content) ==
    /\ contentToSummarize' = content
    /\ IF SplitLength(content) > WordLimit
       THEN /\ error' = "Blog content exceeds the 3000-word limit."
            /\ isLoading' = FALSE
            /\ cpc' = "done"
            /\ UNCHANGED fetches
       ELSE /\ error' = ""
            /\ isLoading' = TRUE
            /\ cpc' = "awaitThread"
            /\ fetches' = Append(fetches, "thread")

\* generateThread from its entry to its first await: the body
StartRun ==
    /\ tweets' = <<>>
    /\ generatedImageUrl' = NoImage
    /\ loadingImage' = FALSE
    /\ UNCHANGED <<url, text, tweetCount, generateImage>>
    /\ IF Truthy(url)
       THEN /\ cpc' = "awaitUrlContent"
            /\ isLoading' = TRUE
            /\ error' = ""
            /\ contentToSummarize' = <<>>
            /\ UNCHANGED fetches
       ELSE IF ~Truthy(text)
       THEN /\ error' = "Please paste some text or enter a URL."
            /\ isLoading' = FALSE
            /\ cpc' = "done"
            /\ contentToSummarize' = <<>>
            /\ UNCHANGED fetches
       ELSE CheckAndFetch(text)

\* the Convert button starts the one run
GenerateThread ==
    /\ UNCHANGED serverVars
    /\ cpc = "idle"
    /\ ~isLoading
    /\ UNCHANGED appVars
    /\ StartRun

\* fetchUrlContent resolves
UrlContentReturns ==
    /\ UNCHANGED serverVars
    /\ UNCHANGED appVars
    /\ cpc = "awaitUrlContent"
    /\ UNCHANGED <<url, text, tweetCount, generateImage, tweets,
                   generatedImageUrl, loadingImage>>
    /\ CheckAndFetch(fetchUrlContent(url))

\* the thread fetch returns: the thread stage ends and the image stage begins
ThreadFetchReturns(resp) ==
    /\ UNCHANGED serverVars
    /\ UNCHANGED appVars
    /\ cpc = "awaitThread"
    /\ UNCHANGED <<url, text, tweetCount, generateImage, contentToSummarize,
                   generatedImageUrl>>
    /\ LET o == ThreadStage(resp) IN
       /\ tweets' = IF o.setTweets THEN o.tweets ELSE tweets
       /\ error' = IF o.error # "" THEN o.error ELSE error
    /\ isLoading' = FALSE
    /\ IF generateImage /\ Truthy(contentToSummarize)
       THEN /\ loadingImage' = TRUE
            /\ fetches' = Append(fetches, "imagePrompt")
            /\ cpc' = "awaitImagePrompt"
       ELSE /\ cpc' = "done"
            /\ UNCHANGED <<loadingImage, fetches>>

\* a slip: the image stage has no finally block
EndImageStageLoading(o) ==
    /\ generatedImageUrl' = IF o.setImage THEN o.image ELSE generatedImageUrl
    /\ error' = IF o.setError THEN o.error ELSE error
    /\ tweets' = tweets
    /\ loadingImage' = loadingImage
    /\ cpc' = "done"

\* a slip: a failed image stage resets the whole result
EndImageStageClearing(o) ==
    /\ generatedImageUrl' = IF o.setImage THEN o.image ELSE generatedImageUrl
    /\ error' = IF o.setError THEN o.error ELSE error
    /\ tweets' = IF o.setImage THEN tweets ELSE <<>>
    /\ loadingImage' = FALSE
    /\ cpc' = "done"

\* what a finished image stage writes
EndImageStage(o) ==
    /\ generatedImageUrl' = IF o.setImage THEN o.image ELSE generatedImageUrl
    /\ error' = IF o.setError THEN o.error ELSE error
    /\ tweets' = tweets
    /\ loadingImage' = FALSE
    /\ cpc' = "done"

\* createImagePrompt returns
ImagePromptReturns(resp) ==
    /\ UNCHANGED serverVars
    /\ UNCHANGED appVars
    /\ cpc = "awaitImagePrompt"
    /\ UNCHANGED <<url, text, tweetCount, generateImage, contentToSummarize,
                   isLoading>>
    /\ IF ~Truthy(createImagePrompt(resp))
       THEN EndImageStage(PromptFailure) /\ UNCHANGED fetches
       ELSE /\ fetches' = Append(fetches, "image")
            /\ cpc' = "awaitImage"
            /\ UNCHANGED <<tweets, error, generatedImageUrl, loadingImage>>

\* the image fetch returns
ImageFetchReturns(resp) ==
    /\ UNCHANGED serverVars
    /\ UNCHANGED appVars
    /\ cpc = "awaitImage"
    /\ UNCHANGED <<url, text, tweetCount, generateImage, contentToSummarize,
                   isLoading, fetches>>
    /\ EndImageStage(ImageStage(resp))

\* ------------------------------------------------------------------------
\* The App with its input fields: edits of the two fields, and the Convert
\* button pressed again whenever it is enabled
\* ------------------------------------------------------------------------
MaxRuns == 2

UrlEdits == {<<>>, SomeUrl}
TextEdits == {<<>>, Words(3), Words(WordLimit + 1)}

\* an edit as it is remembered: the field, whether the value entered was
\* non-empty, and whether the other field held something at that moment
Edit(f, v, other) ==
    [field |-> f, filled |-> Truthy(v), overOther |-> Truthy(other)]

NoEdit == [field |-> "none", filled |-> FALSE, overOther |-> FALSE]

\* the upstream answers the App is run against: one for each way the
\* client's code tells answers apart (fetch rejects, nothing usable in the
\* body, a usable body)
AppThreadResponses ==
    { r \in ThreadResponses :
        \/ ~r.net
        \/ r.parses /\ r.raw = "none"
        \/ r.raw = "array" /\ r.items = ArrayOf(DefaultTweets, MaxTweetLength) }

AppPromptResponses ==
    { r \in TextResponses :
        \/ ~r.net
        \/ r.parses /\ r.ok /\ r.text \in {<<>>, LongText} }

AppImageResponses ==
    { r \in ImageResponses :
        \/ ~r.net
        \/ r.parses /\ r.ok /\ r.url = "" }

\* a slip: a URL is entered and the pasted text stays
SetUrlKeepingText(v) ==
    /\ UNCHANGED serverVars
    /\ url' = v
    /\ text' = text
    /\ lastEdit' = Edit("url", v, text)
    /\ UNCHANGED <<tweetCount, generateImage, tweets, isLoading, error,
                   generatedImageUrl, loadingImage, cpc, contentToSummarize,
                   fetches, started, earlier>>

\* onChange of the URL field
SetUrl(v) ==
    /\ UNCHANGED serverVars
    /\ url' = v
    /\ text' = IF Truthy(v) THEN <<>> ELSE text
    /\ lastEdit' = Edit("url", v, text)
    /\ UNCHANGED <<tweetCount, generateImage, tweets, isLoading, error,
                   generatedImageUrl, loadingImage, cpc, contentToSummarize,
                   fetches, started, earlier>>

\* onChange of the text field
SetText(v) ==
    /\ UNCHANGED serverVars
    /\ text' = v
    /\ url' = IF Truthy(v) THEN <<>> ELSE url
    /\ lastEdit' = Edit("text", v, url)
    /\ UNCHANGED <<tweetCount, generateImage, tweets, isLoading, error,
                   generatedImageUrl, loadingImage, cpc, contentToSummarize,
                   fetches, started, earlier>>

\* a run of generateThread that has not returned yet: the n-th one
\* started, and where it is suspended
Run(n, p) == [n |-> n, pc |-> p]

\* the Convert button: enabled whenever isLoading is false; a run that has
\* not finished goes on beside the one this click starts
ClickConvert ==
    /\ UNCHANGED serverVars
    /\ ~isLoading
    /\ started < MaxRuns
    /\ started' = started + 1
    /\ earlier' = IF cpc \in {"idle", "done"} THEN earlier
                  ELSE Append(earlier, Run(started, cpc))
    /\ UNCHANGED lastEdit
    /\ StartRun

RemoveAt(s, i) == SubSeq(s, 1, i - 1) \o SubSeq(s, i + 1, Len(s))

\* what the finished image stage of an earlier run writes
EndEarlierImageStage(i, o) ==
    /\ generatedImageUrl' = IF o.setImage THEN o.image ELSE generatedImageUrl
    /\ error' = IF o.setError THEN o.error ELSE error
    /\ loadingImage' = FALSE
    /\ earlier' = RemoveAt(earlier, i)

\* createImagePrompt returns to an earlier run
EarlierImagePromptReturns(i, resp) ==
    /\ UNCHANGED serverVars
    /\ i \in 1..Len(earlier)
    /\ earlier[i].pc = "awaitImagePrompt"
    /\ UNCHANGED <<url, text, tweetCount, generateImage, tweets, isLoading,
                   cpc, contentToSummarize, lastEdit, started>>
    /\ IF ~Truthy(createImagePrompt(resp))
       THEN EndEarlierImageStage(i, PromptFailure) /\ UNCHANGED fetches
       ELSE /\ fetches' = Append(fetches, "image")
            /\ earlier' = [earlier EXCEPT ![i].pc = "awaitImage"]
            /\ UNCHANGED <<error, generatedImageUrl, loadingImage>>

\* the image fetch returns to an earlier run
EarlierImageFetchReturns(i, resp) ==
    /\ UNCHANGED serverVars
    /\ i \in 1..Len(earlier)
    /\ earlier[i].pc = "awaitImage"
    /\ UNCHANGED <<url, text, tweetCount, generateImage, tweets, isLoading,
                   cpc, contentToSummarize, lastEdit, started, fetches>>
    /\ EndEarlierImageStage(i, ImageStage(resp))

\* the App as constructed, the image switch as the user left it
AppInit ==
    /\ url = <<>> /\ text = <<>>
    /\ tweetCount = DefaultTweets
    /\ generateImage \in BOOLEAN
    /\ tweets = <<>>
    /\ isLoading = FALSE
    /\ error = ""
    /\ generatedImageUrl = NoImage
    /\ loadingImage = FALSE
    /\ cpc = "idle"
    /\ contentToSummarize = <<>>
    /\ fetches = <<>>
    /\ lastEdit = NoEdit /\ started = 0 /\ earlier = <<>>

ClientInit ==
    /\ \E f \in Forms : url = f.url /\ text = f.text
    /\ tweetCount \in TweetCountChoices
    /\ generateImage \in BOOLEAN
    /\ tweets = <<>>
    /\ isLoading = FALSE
    /\ error = ""
    /\ generatedImageUrl = NoImage
    /\ loadingImage = FALSE
    /\ cpc = "idle"
    /\ contentToSummarize = <<>>
    /\ fetches = <<>>
    /\ lastEdit = NoEdit /\ started = 0 /\ earlier = <<>>

\* ------------------------------------------------------------------------
\* Specifications: the handler serving one request, and the client making
\* one run; the other component stays as constructed
\* ------------------------------------------------------------------------
vars == <<serverVars, clientVars>>

ClientUnused ==
    /\ url = <<>> /\ text = <<>> /\ tweetCount = DefaultTweets
    /\ generateImage = FALSE /\ tweets = <<>> /\ isLoading = FALSE
    /\ error = "" /\ generatedImageUrl = NoImage /\ loadingImage = FALSE
    /\ cpc = "idle" /\ contentToSummarize = <<>> /\ fetches = <<>>
    /\ lastEdit = NoEdit /\ started = 0 /\ earlier = <<>>

ServerUnused ==
    /\ variant = 1
    /\ env = [GEMINI_API_KEY |-> TRUE, PPLX_API_KEY |-> TRUE]
    /\ req = NoRequest /\ pc = "idle" /\ calls = <<>> /\ returns = <<>>
    /\ res = <<>>
    /\ envRead = {} /\ escaped = FALSE
    /\ specificResponse = NotYet /\ broadResponse = NotYet

Init == ServerInit /\ ClientUnused
Next ==
    \/ \E r \in Requests : HandleRequest(r)
    \/ \E resp \in TextResponses : ContentReturns(resp)
    \/ \E resp \in TextResponses : SpecificReturns(resp)
    \/ \E resp \in TextResponses : BroadReturns(resp)
    \/ \E resp \in TextResponses : ThreadReturns(resp)
    \/ \E resp \in TextResponses : PromptReturns(resp)
    \/ \E resp \in ImageResponses : ImageReturns(resp)
Spec == Init /\ [][Next]_vars

InitClient == ClientInit /\ ServerUnused
NextClient ==
    \/ GenerateThread
    \/ UrlContentReturns
    \/ \E resp \in ThreadResponses : ThreadFetchReturns(resp)
    \/ \E resp \in TextResponses : ImagePromptReturns(resp)
    \/ \E resp \in ImageResponses : ImageFetchReturns(resp)
ClientSpec == InitClient /\ [][NextClient]_vars

\* an awaited call of the run settles: the mock fetchUrlContent resolves,
\* or an upstream fetch returns or fails
ClientAwaitSettles ==
    \/ UrlContentReturns
    \/ \E resp \in ThreadResponses : ThreadFetchReturns(resp)
    \/ \E resp \in TextResponses : ImagePromptReturns(resp)
    \/ \E resp \in ImageResponses : ImageFetchReturns(resp)

\* the one run with every awaited call settling; the click that starts it is
\* the user's and nothing obliges it
FairClientSpec == ClientSpec /\ WF_vars(ClientAwaitSettles)

InitApp == AppInit /\ ServerUnused
NextApp ==
    \/ \E v \in UrlEdits : SetUrl(v)
    \/ \E v \in TextEdits : SetText(v)
    \/ ClickConvert
    \/ UrlContentReturns
    \/ \E resp \in AppThreadResponses : ThreadFetchReturns(resp)
    \/ \E resp \in AppPromptResponses : ImagePromptReturns(resp)
    \/ \E resp \in AppImageResponses : ImageFetchReturns(resp)
    \/ \E i \in 1..MaxRuns, resp \in AppPromptResponses :
           EarlierImagePromptReturns(i, resp)
    \/ \E i \in 1..MaxRuns, resp \in AppImageResponses :
           EarlierImageFetchReturns(i, resp)
AppSpec == InitApp /\ [][NextApp]_vars

\* some awaited call of some run settles: the mock fetchUrlContent resolves,
\* or an upstream fetch returns or fails
AwaitSettles ==
    \/ UrlContentReturns
    \/ \E resp \in AppThreadResponses : ThreadFetchReturns(resp)
    \/ \E resp \in AppPromptResponses : ImagePromptReturns(resp)
    \/ \E resp \in AppImageResponses : ImageFetchReturns(resp)
    \/ \E i \in 1..MaxRuns, resp \in AppPromptResponses :
           EarlierImagePromptReturns(i, resp)
    \/ \E i \in 1..MaxRuns, resp \in AppImageResponses :
           EarlierImageFetchReturns(i, resp)

\* while calls are awaited, one of them settles; clicks and edits are the
\* user's and nothing obliges them.  (Each call settling on its own is a
\* stronger assumption than this one.)
FairAppSpec == AppSpec /\ WF_vars(AwaitSettles)

\* ------------------------------------------------------------------------
\* Properties
\* ------------------------------------------------------------------------
ToLowerChar(c) ==
    CASE c = "C" -> "c" [] c = "O" -> "o" [] c = "N" -> "n" [] c = "T" -> "t"
      [] c = "E" -> "e" [] c = "F" -> "f" [] c = "U" -> "u" [] c = "D" -> "d"
      [] OTHER -> c
ToLower(s) == [i \in 1..Len(s) |-> ToLowerChar(s[i])]

\* the number of Broad attempts issued
BroadCalls == Cardinality({ i \in 1..Len(calls) : calls[i].purpose = "broad" })

\* the trigger of the Broad attempt as the specification words it
SpecificUnusable(t) ==
    ToLower(Trim(t)) = ToLower(Sentinel) \/ Len(Trim(t)) < 100

TwoAttemptContent ==
    /\ variant \in TwoAttemptVariants
    /\ req.method = "POST" /\ req.hasBody /\ req.task = "content"

\* C1: in a content request of a two-attempt handler the Broad attempt is
\* issued exactly once if and only if the Specific result is the sentinel
\* (ignoring case and surrounding whitespace) or is shorter than 100
\* characters after trimming; otherwise the Specific call is the only
\* upstream call; and a Broad call is always the second call, issued after
\* the Specific call has returned.
C1_BroadIffSpecificUnusable ==
    TwoAttemptContent =>
        /\ BroadCalls <= 1
        /\ \A i \in 1..Len(calls) :
              calls[i].purpose = "broad" =>
                  /\ i = 2 /\ calls[1].purpose = "specific"
                  /\ Len(returns) >= 1 /\ specificResponse.returned
        /\ ~specificResponse.returned => BroadCalls = 0
        /\ (specificResponse.returned /\ pc # "awaitSpecific") =>
              /\ BroadCalls = 1 <=> SpecificUnusable(specificResponse.text)
              /\ ~SpecificUnusable(specificResponse.text) => Len(calls) = 1

\* a lower-case sentinel came back from the Specific attempt and the Broad
\* attempt was made
C1_Witness ==
    /\ TwoAttemptContent /\ pc = "done"
    /\ specificResponse.returned
    /\ Trim(specificResponse.text) = SentinelLower
    /\ specificResponse.text # SentinelLower
    /\ BroadCalls = 1

\* C2 (as stated): when both attempts return fewer than 100 characters after
\* trimming, the request ends with one 404 response carrying {error}.
C2_BothShortIs404 ==
    ( /\ TwoAttemptContent /\ pc = "done"
      /\ specificResponse.returned /\ Len(Trim(specificResponse.text)) < 100
      /\ broadResponse.returned /\ Len(Trim(broadResponse.text)) < 100 )
    => /\ Len(res) = 1
       /\ res[1].status = 404
       /\ res[1].kind = "error" /\ res[1].error # ""

\* the thread stage of the client's run has ended
ThreadStageOver ==
    /\ \E i \in 1..Len(fetches) : fetches[i] = "thread"
    /\ cpc # "awaitThread"

\* C3 (as stated): a thread generation that reports no error holds exactly
\* the requested number of entries, none longer than 280 characters.
C3_SuccessHasExactlyN ==
    (ThreadStageOver /\ error = "") =>
        /\ tweetCount \in 3..15
        /\ Len(tweets) = tweetCount
        /\ \A i \in 1..Len(tweets) : Len(tweets[i].content) <= 280

PostWithUnknownTask ==
    /\ pc = "done"
    /\ req.method = "POST" /\ req.hasBody
    /\ req.task \notin {"content", "thread", "image"}

\* every credential the deployed variant requires is set
Configured == env.GEMINI_API_KEY /\ (variant = 3 => env.PPLX_API_KEY)

ConfigMessages ==
    { "API key is not configured.", "Gemini API key is not configured.",
      "Perplexity API key is not configured." }

\* C4 (as stated): a POST request with an unrecognized task receives 400 and
\* makes no upstream call, whatever the configuration.
C4_UnknownTaskIs400 ==
    PostWithUnknownTask =>
        /\ Len(res) = 1 /\ res[1].status = 400
        /\ calls = <<>>

\* C4 (amended): a POST request with an unrecognized task never makes an
\* upstream call; it receives 400 when the credentials the variant requires
\* are configured, and the 500 configuration error when one is absent.
C4_UnknownTaskNoCall ==
    PostWithUnknownTask =>
        /\ calls = <<>>
        /\ Len(res) = 1
        /\ Configured => res[1].status = 400 /\ res[1].kind = "error"
        /\ ~Configured => res[1].status = 500 /\ res[1].error \in ConfigMessages

\* a misspelt task was rejected with 400 by a configured handler
C4_Witness ==
    /\ PostWithUnknownTask /\ Configured
    /\ req.task = "summarize"
    /\ res[1].status = 400 /\ calls = <<>>

\* C5: a request whose method is not POST receives 405 with an Allow header
\* listing POST; no upstream call is made and no credential is read.
C5_NonPostIs405 ==
    (pc = "done" /\ req.method # "POST") =>
        /\ Len(res) = 1
        /\ res[1].status = 405
        /\ res[1].allow = <<"POST">>
        /\ calls = <<>>
        /\ envRead = {}

\* a GET request with a body naming a task, to an unconfigured handler
C5_Witness ==
    /\ pc = "done" /\ req.method = "GET"
    /\ req.hasBody /\ req.task = "content"
    /\ ~env.GEMINI_API_KEY
    /\ res[1].status = 405

\* C6: with the text-generation credential absent, every POST request ends
\* with one 500 response carrying the configuration message, and no request
\* that ends with a configuration error has made an upstream call.
C6_MissingKeyIs500 ==
    /\ (req.method = "POST" /\ ~env.GEMINI_API_KEY) =>
          /\ pc = "done"
          /\ calls = <<>>
          /\ Len(res) = 1
          /\ res[1].status = 500
          /\ res[1].error \in
                {"API key is not configured.", "Gemini API key is not configured."}
    /\ (pc = "done" /\ res # <<>> /\ res[1].error \in ConfigMessages) =>
          calls = <<>>

\* a content request to a handler without the credential
C6_Witness ==
    /\ pc = "done" /\ req.method = "POST" /\ ~env.GEMINI_API_KEY
    /\ req.hasBody /\ req.task = "content"
    /\ res[1].status = 500 /\ calls = <<>>

ErrorEnvelope ==
    /\ Len(res) = 1
    /\ res[1].kind = "error" /\ res[1].error # ""
    /\ res[1].status >= 400

LastReturn == returns[Len(returns)]
LastCall == calls[Len(calls)]

\* the image backend's answer lacks what the deployed variant reads from it
ImageDataMissing(r) == IF variant = 3 THEN r.url = "" ELSE r.data = ""

\* C7: every request receives exactly one response, sent when the handler
\* ends; no exception leaves the handler; and a failed upstream call, an
\* unparseable upstream body, an upstream answer without content and a
\* request without a body all end in an {error: message} response.
C7_OneResponseFailuresMapped ==
    /\ ~escaped
    /\ Len(res) = (IF pc = "done" THEN 1 ELSE 0)
    /\ pc = "done" =>
          /\ res[1].status \notin {200, 405} => ErrorEnvelope
          /\ (req.method = "POST" /\ Configured /\ ~req.hasBody) => ErrorEnvelope
          /\ returns # <<>> =>
                /\ ~LastReturn.net => ErrorEnvelope
                /\ ~LastReturn.parses => ErrorEnvelope
                /\ (LastCall.api = "text" /\ LastReturn.text = <<>>) => ErrorEnvelope
                /\ (LastCall.api = "image" /\ ImageDataMissing(LastReturn))
                      => ErrorEnvelope

\* a Broad attempt whose fetch failed, answered by one error response
C7_Witness ==
    /\ pc = "done" /\ Len(calls) = 2
    /\ ~LastReturn.net
    /\ res = <<ErrorResponse(500, FetchFailed)>>

ImageErrorMessage == "Failed to generate image. Please try again."

\* C8: no step of the image stage changes the thread entries, so entries the
\* thread stage produced survive any failure of the image stage.
C8_ImageStageKeepsTweets ==
    [][(cpc \in {"awaitImagePrompt", "awaitImage"}) => (tweets' = tweets)]_vars

\* the requested entries are there after the image stage failed
C8_Witness ==
    /\ cpc = "done" /\ generateImage
    /\ Len(tweets) = tweetCount
    /\ generatedImageUrl = NoImage
    /\ error = ImageErrorMessage

\* C9 (as stated): a run that asked for an image and ends without one has
\* recorded an error.
C9_ImageFailureRecorded ==
    ( /\ cpc = "done" /\ generateImage
      /\ \E i \in 1..Len(fetches) : fetches[i] = "imagePrompt"
      /\ generatedImageUrl = NoImage )
    => error # ""

\* C10 (as stated): an extraction call whose body cannot be parsed yields
\* the sentinel, so an unparseable Specific answer leads to the Broad
\* attempt and is not answered with an error; an unparseable body of any
\* other text call ends the request with an error.
C10_UnparseableExtractionDegrades ==
    /\ ( /\ TwoAttemptContent /\ Len(returns) >= 1
         /\ returns[1].net /\ ~returns[1].parses )
       => /\ specificResponse = Got(Sentinel)
          /\ Len(calls) = 2
    /\ ( /\ variant \in TwoAttemptVariants /\ pc = "done" /\ returns # <<>>
         /\ LastCall.purpose \in {"thread", "prompt"}
         /\ LastReturn.net /\ ~LastReturn.parses )
       => ErrorEnvelope


\* the message names the status code st
NamesStatus(m, st) ==
    \/ st = 429 /\ m = "API request failed with status: 429"
    \/ st = 500 /\ m = "API request failed with status: 500"
    \/ st = 502 /\ m = "API request failed with status: 502"

\* C11 (as stated): a text-model call of the first and two-attempt variants
\* checks the body, then the status, then the content: an unparseable body
\* never yields the status message; a parseable body with a non-success
\* status fails with the body's error.message, or with a message naming the
\* status when there is none; a success status without content fails with
\* the 'No content returned' message.
C11_FailureOrderAndMessages ==
    ( /\ variant \in {1, 2} /\ pc = "done" /\ returns # <<>>
      /\ LastCall.api = "text" /\ LastReturn.net )
    => /\ ~LastReturn.parses =>
             /\ ErrorEnvelope
             /\ ~NamesStatus(res[1].error, LastReturn.status)
       /\ (LastReturn.parses /\ ~LastReturn.ok) =>
             /\ ErrorEnvelope
             /\ IF LastReturn.errorMessage # ""
                THEN res[1].error = LastReturn.errorMessage
                ELSE NamesStatus(res[1].error, LastReturn.status)
       /\ (LastReturn.parses /\ LastReturn.ok /\ LastReturn.text = <<>>) =>
             /\ ErrorEnvelope
             /\ res[1].error = "Gemini API call failed: No content returned."


\* the purposes of the calls issued, in order
Purposes == [i \in 1..Len(calls) |-> calls[i].purpose]

IsPrefix(s, t) == Len(s) <= Len(t) /\ s = SubSeq(t, 1, Len(s))

\* C12: no upstream call is issued twice and none follows a call that
\* failed; at most one call is outstanding; a thread request makes at most
\* one call, a content request at most two (Specific, then Broad) and an
\* image request at most two (prompt derivation, then image synthesis).
C12_NoRetryCallBudget ==
    /\ \A i, j \in 1..Len(calls) : calls[i].purpose = calls[j].purpose => i = j
    /\ Len(calls) = Len(returns) + (IF pc \in {"idle", "done"} THEN 0 ELSE 1)
    /\ \A i \in 1..Len(returns) : ~returns[i].net => Len(calls) = i
    /\ req.task = "thread" => IsPrefix(Purposes, <<"thread">>)
    /\ req.task = "content" =>
          \/ IsPrefix(Purposes, <<"specific", "broad">>)
          \/ IsPrefix(Purposes, <<"content">>)
    /\ req.task = "image" =>
          \/ IsPrefix(Purposes, <<"prompt", "image">>)
          \/ IsPrefix(Purposes, <<"image">>)
    /\ req.task \notin {"thread", "content", "image"} => calls = <<>>

\* an image request of the Imagen variant made its two calls, and the second
\* failed without being issued again
C12_Witness ==
    /\ pc = "done" /\ req.task = "image"
    /\ Purposes = <<"prompt", "image">>
    /\ Len(returns) = 2 /\ ~returns[2].net


\* C13 (as stated): the text of every 200 response is non-empty after
\* trimming, and so is every text a text-model call returned as a success.
C13_SuccessTextNonBlank ==
    /\ (pc = "done" /\ res[1].status = 200 /\ res[1].kind = "text") =>
          Trim(res[1].text) # <<>>
    /\ specificResponse.returned => Trim(specificResponse.text) # <<>>
    /\ broadResponse.returned => Trim(broadResponse.text) # <<>>


\* the helper answered by upstream answer r to call c returned a result:
\* the fetch resolved, the body parsed (or the Perplexity variant degraded
\* an extraction call), the status was accepted and the content was there
CallSucceeded(c, r) ==
    /\ r.net
    /\ IF c.api = "text"
       THEN \/ r.parses /\ r.ok /\ r.text # <<>>
            \/ /\ ~r.parses /\ variant = 3
               /\ c.purpose \in {"specific", "broad"}
       ELSE /\ r.parses
            /\ ~ImageDataMissing(r)
            /\ variant \in {3, 4} => r.ok

C15_ImageIsDataUri ==
    (pc = "done" /\ res[1].status = 200 /\ res[1].kind = "image") =>
        /\ res[1].imageUrl.scheme = "data:image/png;base64,"
        /\ res[1].imageUrl.rest # ""
        /\ res[1].imageUrl.rest = LastReturn.data


ContentOrThreadWithoutImageKey ==
    /\ pc # "idle"
    /\ req.method = "POST" /\ req.hasBody
    /\ req.task \in {"content", "thread"}
    /\ env.GEMINI_API_KEY /\ ~env.PPLX_API_KEY

\* C16 (as stated): a content or thread request made with the
\* text-generation credential set and the image-backend credential absent
\* reaches the text model and is not answered with a configuration error.
C16_ImageKeyOnlyForImage ==
    ContentOrThreadWithoutImageKey =>
        /\ calls # <<>>
        /\ \A k \in 1..Len(res) : res[k].error \notin ConfigMessages

\* C17 (as stated): every upstream call of a thread request is made with a
\* tweetCount in 3..15.
C17_ThreadCallCountInRange ==
    \A i \in 1..Len(calls) :
        calls[i].purpose = "thread" => calls[i].tweetCount \in 3..15


ImageStageFetched ==
    \E i \in 1..Len(fetches) : fetches[i] \in {"imagePrompt", "image"}

\* C18: the two stages of a run complete in one order only. The image stage
\* issues its first fetch after the thread stage has ended (the thread fetch
\* came first, is no longer awaited, and isLoading is false again), and
\* nothing of the image stage is written while the thread fetch is awaited;
\* so the final state cannot depend on which stage completes first.
C18_StagesInOneOrder ==
    /\ ImageStageFetched =>
          /\ fetches[1] = "thread"
          /\ cpc # "awaitThread"
          /\ ~isLoading
    /\ cpc = "awaitThread" =>
          /\ fetches = <<"thread">>
          /\ generatedImageUrl = NoImage
          /\ ~loadingImage
    /\ cpc \in {"awaitImagePrompt", "awaitImage"} => loadingImage

\* both stages ran and both failed: the entries are empty and the error is
\* the one the image stage wrote last
C18_Witness ==
    /\ cpc = "done" /\ generateImage
    /\ fetches = <<"thread", "imagePrompt", "image">>
    /\ tweets = <<>>
    /\ generatedImageUrl = NoImage
    /\ error = ImageErrorMessage

\* C19 (as stated): a run whose prompt derivation failed (the image stage
\* ended without fetching the image) does not record the error that a
\* failed image synthesis records.
C19_PromptFailureDistinct ==
    ( /\ cpc = "done" /\ generateImage
      /\ fetches # <<>> /\ fetches[Len(fetches)] = "imagePrompt" )
    => error # ImageErrorMessage

\* C20 (as stated): the text of a 200 response to a content request has at
\* least 100 characters after trimming and is not the sentinel; in the
\* two-attempt variants it is the Specific text when that passed the check
\* and the Broad text otherwise.
C20_ContentTextUsable ==
    ( /\ pc = "done" /\ req.method = "POST" /\ req.task = "content"
      /\ res[1].status = 200 )
    => /\ Len(Trim(res[1].text)) >= 100
       /\ ToLower(Trim(res[1].text)) # ToLower(Sentinel)
       /\ variant \in TwoAttemptVariants =>
             res[1].text = IF SpecificUnusable(specificResponse.text)
                           THEN broadResponse.text
                           ELSE specificResponse.text


\* text.split(/\s+/).filter(Boolean).length: the words of a text, as the
\* word counter under the text field counts them
WordCount(s) ==
    Cardinality({ i \in 1..Len(s) :
                    /\ s[i] \notin WhiteSpace
                    /\ (i = 1 \/ s[i - 1] \in WhiteSpace) })

\* the run has ended on one of its two validation paths: nothing was
\* supplied (contentToSummarize is still empty) or the content has more
\* words than the limit
ValidationFailed ==
    /\ cpc = "done"
    /\ \/ contentToSummarize = <<>>
       \/ WordCount(contentToSummarize) > WordLimit

C22_AtMostOneFieldFilled ==
    /\ ~(Truthy(url) /\ Truthy(text))
    /\ lastEdit.field = "url" => Truthy(url) = lastEdit.filled
    /\ lastEdit.field = "text" => Truthy(text) = lastEdit.filled
    /\ (lastEdit.field = "url" /\ lastEdit.filled) => text = <<>>
    /\ (lastEdit.field = "text" /\ lastEdit.filled) => url = <<>>

\* a URL was entered while pasted text was there, then the run started on
\* the URL
C22_Witness ==
    /\ lastEdit = [field |-> "url", filled |-> TRUE, overOther |-> TRUE]
    /\ url = SomeUrl /\ text = <<>>
    /\ cpc = "awaitUrlContent"


RunsInProgress ==
    Len(earlier) + (IF cpc \in {"idle", "done"} THEN 0 ELSE 1)

\* C23 (as stated): at most one run of generateThread is in progress, and
\* what an earlier run produces is not written after a later run has
\* cleared the state: a latest run that ended at its validation, which
\* cleared the image and never fetched one, shows no image.
C23_OneRunAtATime ==
    /\ RunsInProgress <= 1
    /\ (cpc = "done" /\ contentToSummarize = <<>>) => generatedImageUrl = NoImage


\* the n-th run of generateThread has started and has returned
RunEnded(n) ==
    /\ started >= n
    /\ IF started = n THEN cpc = "done"
       ELSE \A i \in 1..Len(earlier) : earlier[i].n # n

\* C24: a started run of generateThread ends, if each awaited call settles,
\* and it ends with isLoading false and loadingImage false: isLoading is
\* true only before the end of the thread stage and loadingImage only in
\* the image stage.
C24_RunEndsWithFlagsDown ==
    /\ [](cpc = "done" => ~isLoading /\ ~loadingImage)
    /\ [](isLoading => cpc \in {"awaitUrlContent", "awaitThread"})
    /\ [](loadingImage => cpc \in {"awaitImagePrompt", "awaitImage"})
    /\ (cpc # "idle") ~> (cpc = "done")

\* full success: thread and image both produced, both flags down
C24_Witness ==
    /\ cpc = "done" /\ generateImage
    /\ fetches = <<"thread", "imagePrompt", "image">>
    /\ tweets # <<>> /\ generatedImageUrl # NoImage
    /\ error = ""
    /\ ~isLoading /\ ~loadingImage

\* The same with runs overlapping (FairAppSpec): every run that starts
\* ends, the flags are true only while the latest run is in the stage they
\* belong to, and both are false once no run is in progress.
OverlappingRunsEndWithFlagsDown ==
    /\ [](isLoading => cpc \in {"awaitUrlContent", "awaitThread"})
    /\ [](loadingImage => cpc \in {"awaitImagePrompt", "awaitImage"})
    /\ [](RunsInProgress = 0 => ~isLoading /\ ~loadingImage)
    /\ \A n \in 1..MaxRuns : (started >= n) ~> RunEnded(n)

====
